---------------------------- MODULE Spec2Model ----------------------------
(***************************************************************************)
(* A model of django-base-model: the ModelAttribute name/value store with  *)
(* its name validation (models.py), the attribute-aware BaseModelManager   *)
(* and BaseModel methods (models.py), the generic-relation manager that    *)
(* propagates new attributes onto the host object (generic.py), and the    *)
(* admin hook that records the last modifying user (admin.py).             *)
(*                                                                         *)
(* Strings that the code inspects character by character (attribute       *)
(* names) are sequences of one-character strings.  Attribute values are   *)
(* opaque strings.  There is one concrete BaseModel subclass, so the       *)
(* content type of every ModelAttribute row is the same and is left out;  *)
(* object_id is the host record's primary key.  Database lookups compare   *)
(* exactly (case-sensitively), as the ORM's "exact" lookup does.           *)
(***************************************************************************)
EXTENDS Naturals, Sequences, FiniteSets, TLC

VARIABLES
    records,    \* table of the BaseModel subclass: pk -> [data, last_modified_by]
    others,     \* table of a model that does not inherit BaseModel: pk -> [data]
    rows,       \* ModelAttribute table: set of [name, value, object_id]
    mem,        \* in-memory model instances: slot -> instance
    pc,         \* "idle", "called" (a call is running) or "returned"
    call,       \* the call being made: its name and arguments
    ret,        \* what the call returned or raised
    nops        \* number of calls made so far

vars == <<records, others, rows, mem, pc, call, ret, nops>>

----------------------------------------------------------------------------
(* Bounds *)

MaxOps == 3          \* calls on the model layer in one behaviour
MaxAdminOps == 4     \* admin calls in one behaviour
MaxObjs == 2         \* rows per host table
MaxSlots == 2        \* objects the caller holds in memory

Slots == 1..MaxSlots
Pks == 1..MaxObjs

----------------------------------------------------------------------------
(* Characters and names *)

UpperChars == <<"A","B","C","D","E","F","G","H","I","J","K","L","M",
                "N","O","P","Q","R","S","T","U","V","W","X","Y","Z">>
LowerChars == <<"a","b","c","d","e","f","g","h","i","j","k","l","m",
                "n","o","p","q","r","s","t","u","v","w","x","y","z">>
Digits == {"0","1","2","3","4","5","6","7","8","9"}

\* The character class [a-z0-9_] of ATTRIBUTE_MODEL_NAME_PATTERN.
PatternChars == {LowerChars[i] : i \in 1..26} \cup Digits \cup {"_"}

\* str.lower() on one character.
LowerChar(c) ==
    IF \E i \in 1..26 : UpperChars[i] = c
    THEN LowerChars[CHOOSE i \in 1..26 : UpperChars[i] = c]
    ELSE c

\* str.lower()
Lower(s) == [i \in 1..Len(s) |-> LowerChar(s[i])]

\* ATTRIBUTE_MODEL_NAME_PATTERN.match(s) is not None, for '^[a-z0-9_]+$':
\* without re.MULTILINE, "$" matches at the end of the string and also just
\* before a newline that is the last character of the string.
PatternMatches(s) ==
    LET n == Len(s)
        core == IF n > 0 /\ s[n] = "\n" THEN SubSeq(s, 1, n - 1) ELSE s
    IN  /\ Len(core) > 0
        /\ \A i \in 1..Len(core) : core[i] \in PatternChars

\* max_length of ModelAttribute.name
NameMaxLength == 255

N_a == <<"a">>
N_A == <<"A">>
N_empty == <<>>
N_space == <<"a", " ">>
N_newline == <<"a", "\n">>
N_save == <<"s","a","v","e">>
N_attributes == <<"a","t","t","r","i","b","u","t","e","s">>

\* The names calls are made with.
Names == {N_a, N_A, N_empty, N_space, N_newline, N_save, N_attributes}

\* Attribute values: the TextField default '' and a non-empty text.
Values == {"", "x"}

----------------------------------------------------------------------------
(* ModelAttribute: clean, full_clean, save *)

\* A ModelAttribute row that does not exist (an instance not yet saved).
NoRow == [name |-> <<>>, value |-> "", object_id |-> 0]

\* An unsaved ModelAttribute(name=.., value=.., object_id=..).
NewAttribute(name, value, oid) ==
    [name |-> name, value |-> value, object_id |-> oid, row |-> NoRow]

\* A ModelAttribute loaded from the row r.
LoadedAttribute(r) ==
    [name |-> r.name, value |-> r.value, object_id |-> r.object_id, row |-> r]

RowOf(inst) ==
    [name |-> inst.name, value |-> inst.value, object_id |-> inst.object_id]

\* Model.clean_fields for the name field: CharField(max_length=255), blank
\* not allowed.
clean_fields_fails(inst) ==
    inst.name = <<>> \/ Len(inst.name) > NameMaxLength

\* Faulty variant: clean without the lower-casing.
clean_keeps_case(inst) == inst

\* ModelAttribute.clean: lower-cases the name in place, then matches it.
clean(inst) == [inst EXCEPT !.name = Lower(@)]

\* Model.validate_unique for unique_together (name, content_type,
\* object_id): another row with the (already cleaned) name and object.
validate_unique_fails(tbl, inst) ==
    \E r \in tbl : /\ r.name = inst.name
                   /\ r.object_id = inst.object_id
                   /\ r # inst.row

\* The rest of Model.full_clean once clean() has left the instance as
\* cleaned: validate_unique runs on it, and a ValidationError is raised if
\* clean_fields, clean or validate_unique failed.
full_clean_after(tbl, inst, cleaned) ==
    [inst |-> cleaned,
     raised |-> \/ clean_fields_fails(inst)
                \/ ~PatternMatches(cleaned.name)
                \/ validate_unique_fails(tbl, cleaned)]

\* Model.full_clean: clean_fields, clean and validate_unique all run.
full_clean(tbl, inst) == full_clean_after(tbl, inst, clean(inst))

\* super(ModelAttribute, self).save(): the row is written, unless full_clean
\* raised.
save_after(tbl, inst, fc) ==
    IF fc.raised
    THEN [rows |-> tbl, inst |-> fc.inst, raised |-> TRUE]
    ELSE [rows |-> (tbl \ {inst.row}) \cup {RowOf(fc.inst)},
          inst |-> [fc.inst EXCEPT !.row = RowOf(fc.inst)],
          raised |-> FALSE]

\* ModelAttribute.save: full_clean, then the row is written.
save(tbl, inst) == save_after(tbl, inst, full_clean(tbl, inst))

\* QuerySet.create(**kwargs): instantiate and save(force_insert=True).
QuerySet_create(tbl, name, value, oid) ==
    save(tbl, NewAttribute(name, value, oid))

\* What get_or_create returns for the object it had to create.
Created(s) ==
    [rows |-> s.rows, inst |-> s.inst, raised |-> s.raised,
     created |-> ~s.raised]

\* QuerySet.get_or_create(**kwargs): get(**kwargs) on every keyword given
\* (name, value and the object), else create.
QuerySet_get_or_create(tbl, name, value, oid) ==
    IF [name |-> name, value |-> value, object_id |-> oid] \in tbl
    THEN [rows |-> tbl,
          inst |-> LoadedAttribute([name |-> name, value |-> value,
                                    object_id |-> oid]),
          raised |-> FALSE, created |-> FALSE]
    ELSE Created(QuerySet_create(tbl, name, value, oid))

----------------------------------------------------------------------------
(* Host objects in memory *)

Absent == "<absent>"

NoProps == [n \in Names |-> Absent]

\* No object in the slot.
NoObject ==
    [kind |-> "none", pk |-> 0, data |-> "", last_modified_by |-> "",
     props |-> NoProps]

\* Attributes every BaseModel instance has from its class: the save method
\* and the attributes relation (BaseModel.attributes).
ClassAttributes == {N_save, N_attributes}

\* hasattr(obj, name)
hasattr(obj, name) ==
    name \in ClassAttributes \/ obj.props[name] # Absent

\* getattr(obj, name): the instance's own value if it has one, else what
\* the class provides.
getattr(obj, name) ==
    IF name = N_attributes THEN "<manager>"
    ELSE IF obj.props[name] # Absent THEN obj.props[name]
    ELSE IF name \in ClassAttributes THEN "<method>"
    ELSE Absent

RowsOf(tbl, pk) == {r \in tbl : r.object_id = pk}

\* BaseGenericRelatedObjectManager.clear: deletes every row of the instance.
Related_clear(tbl, pk) == tbl \ RowsOf(tbl, pk)

\* BaseGenericRelatedObjectManager.add(*objs) for the objects a text value
\* yields when iterated (its characters): the first one is no ModelAttribute
\* and add raises TypeError; an empty text yields nothing.
Related_add_fails(value) == value # ""

\* setattr(obj, name, value).  "attributes" is the relation's descriptor,
\* BaseReverseGenericRelatedObjectsDescriptor, whose inherited __set__
\* is manager.clear() followed by manager.add(o) for o in value.
setattr(tbl, obj, name, value) ==
    IF name = N_attributes
    THEN [rows |-> Related_clear(tbl, obj.pk), obj |-> obj,
          raised |-> Related_add_fails(value)]
    ELSE [rows |-> tbl, obj |-> [obj EXCEPT !.props[name] = value],
          raised |-> FALSE]

\* BaseModel.set_attribute
set_attribute(tbl, obj, name, value, overwrite) ==
    IF overwrite \/ ~hasattr(obj, name)
    THEN setattr(tbl, obj, name, value)
    ELSE [rows |-> tbl, obj |-> obj, raised |-> FALSE]

\* BaseModel.set_attributes over the rows self.attributes.all() returned, in
\* the order the database returned them.
RECURSIVE set_attributes(_, _, _, _)
\* The loop goes on after one attribute, unless setattr raised.
set_attributes_next(s, order, overwrite) ==
    IF s.raised THEN s ELSE set_attributes(s.rows, s.obj, order, overwrite)

\* Faulty variant: the loop body skipping attributes whose value is empty.
set_attributes_skips_empty(tbl, obj, attribute, overwrite) ==
    IF attribute.name # <<>> /\ attribute.value # ""
       /\ (overwrite \/ ~hasattr(obj, attribute.name))
    THEN setattr(tbl, obj, attribute.name, attribute.value)
    ELSE [rows |-> tbl, obj |-> obj, raised |-> FALSE]

\* The body of the loop of set_attributes for one attribute.
set_attributes_one(tbl, obj, attribute, overwrite) ==
    IF attribute.name # <<>> /\ (overwrite \/ ~hasattr(obj, attribute.name))
    THEN setattr(tbl, obj, attribute.name, attribute.value)
    ELSE [rows |-> tbl, obj |-> obj, raised |-> FALSE]

set_attributes(tbl, obj, order, overwrite) ==
    IF order = <<>>
    THEN [rows |-> tbl, obj |-> obj, raised |-> FALSE]
    ELSE set_attributes_next(
             set_attributes_one(tbl, obj, Head(order), overwrite),
             Tail(order), overwrite)


----------------------------------------------------------------------------
(* The generic-relation manager of obj.attributes *)

\* What the managers test before propagating: content_object is given and
\* has a set_attribute method (it inherits from BaseModel).
CanSetAttribute(cobj) == cobj.kind = "BaseModel"

\* Faulty variant: propagation whether or not the row was created.
Propagated_always(s, cobj, propagate) ==
    IF ~s.raised /\ CanSetAttribute(cobj)
    THEN set_attribute(s.rows, cobj, s.inst.name, s.inst.value, FALSE)
    ELSE [rows |-> s.rows, obj |-> cobj, raised |-> FALSE]

\* The content object after a manager call: set_attribute(obj.name,
\* obj.value) on it when propagate holds and it can take it.
Propagated(s, cobj, propagate) ==
    IF propagate /\ CanSetAttribute(cobj)
    THEN set_attribute(s.rows, cobj, s.inst.name, s.inst.value, FALSE)
    ELSE [rows |-> s.rows, obj |-> cobj, raised |-> FALSE]

\* The outcome of a manager call: s is what the query set returned or
\* raised, t the content object after propagation.
Outcome(s, t) ==
    [rows |-> t.rows, obj |-> t.obj, raised |-> s.raised \/ t.raised,
     inst |-> s.inst, created |-> s.created]

\* The rest of create and get_or_create after the query set's call.
Related_after(s, cobj) == Outcome(s, Propagated(s, cobj, s.created))

\* BaseGenericRelatedObjectManager.create(content_object, name=, value=) of
\* the manager whose instance has primary key pk: the row is created for
\* that instance, and the content object gets the attribute.
Related_create(tbl, pk, cobj, name, value) ==
    Related_after(Created(QuerySet_create(tbl, name, value, pk)), cobj)

\* BaseGenericRelatedObjectManager.get_or_create(content_object, name=,
\* value=): the content object gets the attribute only if the row was
\* created.
Related_get_or_create(tbl, pk, cobj, name, value) ==
    Related_after(QuerySet_get_or_create(tbl, name, value, pk), cobj)

\* BaseGenericRelatedObjectManager.add(obj) for a ModelAttribute instance:
\* points it at the manager's instance and saves it.
Related_add(tbl, pk, inst) == save(tbl, [inst EXCEPT !.object_id = pk])

----------------------------------------------------------------------------
(* BaseModel.create_attributes and update_attributes *)

\* A keyword argument that was not given (None).
None == [given |-> FALSE, items |-> <<>>]
Given(items) == [given |-> TRUE, items |-> items]

\* Python truth of a dict or list argument: given and not empty.
Truthy(arg) == arg.given /\ arg.items # <<>>

RECURSIVE CreateEach(_, _, _)
\* The loop goes on after one create, unless it raised.
CreateNext(s, items) ==
    IF s.raised THEN [rows |-> s.rows, obj |-> s.obj, raised |-> TRUE]
    ELSE CreateEach(s.rows, s.obj, items)

\* for name, value in ...: self.attributes.create(self, name=name,
\* value=value), stopping at the first exception.
CreateEach(tbl, obj, items) ==
    IF items = <<>>
    THEN [rows |-> tbl, obj |-> obj, raised |-> FALSE]
    ELSE CreateNext(Related_create(tbl, obj.pk, obj, Head(items).name,
                                   Head(items).value),
                    Tail(items))

\* create(self, name=name) leaves value to the field's default, ''.
WithDefaultValue(names) ==
    [i \in 1..Len(names) |-> [name |-> names[i], value |-> ""]]

\* BaseModel.create_attributes
create_attributes(tbl, obj, attributes, attribute_names) ==
    IF Truthy(attributes)
    THEN CreateEach(tbl, obj, attributes.items)
    ELSE IF Truthy(attribute_names)
    THEN CreateEach(tbl, obj, WithDefaultValue(attribute_names.items))
    ELSE [rows |-> tbl, obj |-> obj, raised |-> FALSE]

\* The else branch of update_attributes: after model_attribute.save(),
\* set_attribute(name, value, overwrite=True).
UpdateFound(s, obj, name, value) ==
    IF s.raised
    THEN [rows |-> s.rows, obj |-> obj, raised |-> TRUE]
    ELSE set_attribute(s.rows, obj, name, value, TRUE)

\* self.attributes.get(name=name) of the loop of update_attributes.
FoundRows(tbl, obj, name) == {r \in RowsOf(tbl, obj.pk) : r.name = name}

\* One turn of the loop of update_attributes.
UpdateOne(tbl, obj, name, value, create) ==
    IF FoundRows(tbl, obj, name) = {}
    THEN IF create
         THEN Related_create(tbl, obj.pk, obj, name, value)
         ELSE [rows |-> tbl, obj |-> obj, raised |-> FALSE]
    ELSE UpdateFound(
             save(tbl, [LoadedAttribute(CHOOSE r \in FoundRows(tbl, obj, name) : TRUE)
                            EXCEPT !.value = value]),
             obj, name, value)

RECURSIVE UpdateEach(_, _, _, _)
\* The loop goes on after one item, unless it raised.
UpdateNext(s, items, create) ==
    IF s.raised THEN [rows |-> s.rows, obj |-> s.obj, raised |-> TRUE]
    ELSE UpdateEach(s.rows, s.obj, items, create)

UpdateEach(tbl, obj, items, create) ==
    IF items = <<>>
    THEN [rows |-> tbl, obj |-> obj, raised |-> FALSE]
    ELSE UpdateNext(UpdateOne(tbl, obj, Head(items).name, Head(items).value,
                              create),
                    Tail(items), create)

\* BaseModel.update_attributes
update_attributes(tbl, obj, attributes, create) ==
    IF Truthy(attributes)
    THEN UpdateEach(tbl, obj, attributes.items, create)
    ELSE [rows |-> tbl, obj |-> obj, raised |-> FALSE]


----------------------------------------------------------------------------
(* Arguments the calls are made with *)

Item(n, v) == [name |-> n, value |-> v]

\* attributes=: dictionaries, as the sequence of their items in iteration
\* order.
AttrDicts ==
    {<<>>}
    \cup {<<Item(n, "x")>> : n \in Names}
    \cup {<<Item(N_a, "")>>, <<Item(N_attributes, "")>>}
    \cup {<<Item(N_a, "x"), Item(N_A, "")>>,
          <<Item(N_A, ""), Item(N_a, "x")>>,
          <<Item(N_a, "x"), Item(N_save, "x")>>,
          <<Item(N_space, "x"), Item(N_a, "x")>>}

\* attribute_names=: lists of names.
NameLists == {<<>>, <<N_a>>, <<N_A, N_save>>}

\* The (attributes=, attribute_names=) pairs calls are made with: either
\* one alone, neither, and both together (with attributes empty and not).
KwArgs ==
    {<<None, None>>}
    \cup {<<None, Given(l)>> : l \in NameLists}
    \cup {<<Given(d), None>> : d \in AttrDicts}
    \cup {<<Given(<<>>), Given(<<N_a>>)>>,
          <<Given(<<Item(N_a, "x")>>), Given(<<N_A, N_save>>)>>}

\* attributes= of update_attributes.
AttrArgs == {None} \cup {Given(d) : d \in AttrDicts}

\* The name=, value= pairs calls are made with.
NameValues ==
    {Item(n, "x") : n \in Names}
    \cup {Item(N_a, ""), Item(N_attributes, "")}

\* request.user, or no such attribute on the request.
Users == {"alice", "bob"}
NoUser == ""

\* Values of a model's own column, as an admin form sets it.
Data == {"", "d"}

----------------------------------------------------------------------------
(* The host tables and objects read from them *)

ExistingPks == DOMAIN records

\* The primary key the database gives the next inserted row of a table.
NextPk(tbl) ==
    IF DOMAIN tbl = {} THEN 1
    ELSE 1 + CHOOSE k \in DOMAIN tbl : \A j \in DOMAIN tbl : j <= k

NewRecord == [data |-> "", last_modified_by |-> NoUser]

\* The instance the ORM builds from the BaseModel row with primary key pk.
FromDb(tbl, pk) ==
    [kind |-> "BaseModel", pk |-> pk, data |-> tbl[pk].data,
     last_modified_by |-> tbl[pk].last_modified_by, props |-> NoProps]

\* An instance of the model that does not inherit BaseModel.
OtherFromDb(tbl, pk) ==
    [kind |-> "Other", pk |-> pk, data |-> tbl[pk].data,
     last_modified_by |-> NoUser, props |-> NoProps]

\* An instance not saved yet (pk is None).
Unsaved(kind) ==
    [kind |-> kind, pk |-> 0, data |-> "", last_modified_by |-> NoUser,
     props |-> NoProps]

\* The orders in which the database may return a set of rows.
Orders(S) ==
    {o \in [1..Cardinality(S) -> S] : \A i, j \in 1..Cardinality(S) :
                                        i # j => o[i] # o[j]}

IsBaseModel(slot) == mem[slot].kind = "BaseModel" /\ mem[slot].pk \in ExistingPks

\* content_object=: an object in memory, or None.
ContentObjects == {0} \cup {s \in Slots : IsBaseModel(s)}
ContentObject(c) == IF c = 0 THEN NoObject ELSE mem[c]

\* ModelAttribute instances a caller may hold: unsaved ones for an existing
\* record, and loaded ones with name or value edited.
AttributeInstances ==
    {NewAttribute(nv.name, nv.value, k) : nv \in NameValues, k \in ExistingPks}
    \cup {[LoadedAttribute(r) EXCEPT !.name = nv.name, !.value = nv.value] :
              r \in rows, nv \in NameValues}

----------------------------------------------------------------------------
(* Calls *)

Idle == [op |-> "idle"]
NoRet == [raised |-> FALSE]

Init ==
    /\ records = << >>
    /\ others = << >>
    /\ rows = {}
    /\ mem = [s \in Slots |-> NoObject]
    /\ pc = "idle"
    /\ call = Idle
    /\ ret = NoRet
    /\ nops = 0

\* The calls on the model layer that can be made in the current state.
ModelCalls ==
    {[op |-> "BaseModelManager.create", slot |-> s, attributes |-> kw[1],
      attribute_names |-> kw[2]] :
        s \in {t \in Slots : NextPk(records) \in Pks}, kw \in KwArgs}
    \cup
    {[op |-> "BaseModelManager.get_or_create", slot |-> s, pk |-> k,
      attributes |-> kw[1], attribute_names |-> kw[2]] :
        s \in Slots, k \in Pks, kw \in KwArgs}
    \cup
    {[op |-> "BaseModelManager.get", slot |-> s, pk |-> k] :
        s \in Slots, k \in ExistingPks}
    \cup
    {[op |-> "set_attribute", slot |-> s, name |-> nv.name,
      value |-> nv.value, overwrite |-> o] :
        s \in {t \in Slots : IsBaseModel(t)}, nv \in NameValues,
        o \in BOOLEAN}
    \cup
    {[op |-> "set_attributes", slot |-> s, overwrite |-> o] :
        s \in {t \in Slots : IsBaseModel(t)}, o \in BOOLEAN}
    \cup
    {[op |-> "create_attributes", slot |-> s, attributes |-> kw[1],
      attribute_names |-> kw[2]] :
        s \in {t \in Slots : IsBaseModel(t)}, kw \in KwArgs}
    \cup
    {[op |-> "update_attributes", slot |-> s, attributes |-> a,
      create |-> c] :
        s \in {t \in Slots : IsBaseModel(t)}, a \in AttrArgs, c \in BOOLEAN}
    \cup
    {[op |-> "attributes.create", slot |-> s, content_object |-> c,
      name |-> nv.name, value |-> nv.value] :
        s \in {t \in Slots : IsBaseModel(t)}, c \in ContentObjects,
        nv \in NameValues}
    \cup
    {[op |-> "attributes.get_or_create", slot |-> s, content_object |-> c,
      name |-> nv.name, value |-> nv.value] :
        s \in {t \in Slots : IsBaseModel(t)}, c \in ContentObjects,
        nv \in NameValues}
    \cup
    {[op |-> "attributes.add", slot |-> s, inst |-> i] :
        s \in {t \in Slots : IsBaseModel(t)}, i \in AttributeInstances}
    \cup
    {[op |-> "attributes.clear", slot |-> s] :
        s \in {t \in Slots : IsBaseModel(t)}}
    \cup
    {[op |-> "ModelAttribute.objects.create", content_object |-> c,
      name |-> nv.name, value |-> nv.value, object_id |-> k] :
        c \in ContentObjects, nv \in NameValues, k \in ExistingPks}
    \cup
    {[op |-> "ModelAttribute.objects.get_or_create", content_object |-> c,
      name |-> nv.name, value |-> nv.value, object_id |-> k] :
        c \in ContentObjects, nv \in NameValues, k \in ExistingPks}
    \cup
    {[op |-> "ModelAttribute.save", inst |-> i] : i \in AttributeInstances}

\* A caller makes a call.
Invoke ==
    /\ pc = "idle"
    /\ nops < MaxOps
    /\ \E c \in ModelCalls : call' = c
    /\ pc' = "called"
    /\ nops' = nops + 1
    /\ UNCHANGED <<records, others, rows, mem, ret>>

\* The caller has the result, or the exception.
Return ==
    /\ pc = "returned"
    /\ pc' = "idle"
    /\ call' = Idle
    /\ ret' = NoRet
    /\ UNCHANGED <<records, others, rows, mem, nops>>

Running(op) == pc = "called" /\ call.op = op

\* What a call leaves when it mutates the object in the slot in place.
Finish(slot, w) ==
    /\ rows' = w.rows
    /\ mem' = [mem EXCEPT ![slot] = w.obj]
    /\ ret' = [raised |-> w.raised]
    /\ pc' = "returned"
    /\ UNCHANGED <<records, others, call, nops>>

\* What a manager call leaves when it returns the object it built to the
\* caller, who keeps it in call.slot; a call that raises returns nothing.
FinishNew(w, created) ==
    /\ rows' = w.rows
    /\ mem' = IF w.raised THEN mem ELSE [mem EXCEPT ![call.slot] = w.obj]
    /\ ret' = [raised |-> w.raised, created |-> created /\ ~w.raised]
    /\ pc' = "returned"
    /\ UNCHANGED <<others, call, nops>>

\* obj = Model.objects.create(attributes=, attribute_names=)
BaseModelManager_create ==
    /\ Running("BaseModelManager.create")
    /\ records' = records @@ (NextPk(records) :> NewRecord)
    /\ FinishNew(create_attributes(
                     rows, FromDb(records', NextPk(records)),
                     call.attributes, call.attribute_names),
                 TRUE)

\* Faulty variant: get_or_create that calls create_attributes on a found record
\* too.
BaseModelManager_get_or_create_always ==
    /\ Running("BaseModelManager.get_or_create")
    /\ records' = IF call.pk \in ExistingPks THEN records
                  ELSE records @@ (call.pk :> NewRecord)
    /\ FinishNew(create_attributes(rows, FromDb(records', call.pk),
                                   call.attributes, call.attribute_names),
                 call.pk \notin ExistingPks)

\* obj, created = Model.objects.get_or_create(attributes=, attribute_names=,
\* pk=pk): QuerySet.get_or_create finds or inserts the record, and only a
\* created one gets create_attributes.
BaseModelManager_get_or_create ==
    /\ Running("BaseModelManager.get_or_create")
    /\ IF call.pk \in ExistingPks
       THEN /\ UNCHANGED records
            /\ FinishNew([rows |-> rows, obj |-> FromDb(records, call.pk),
                          raised |-> FALSE],
                         FALSE)
       ELSE /\ records' = records @@ (call.pk :> NewRecord)
            /\ FinishNew(create_attributes(
                             rows, FromDb(records', call.pk),
                             call.attributes, call.attribute_names),
                         TRUE)

\* obj = Model.objects.get(pk=pk)
BaseModelManager_get ==
    /\ Running("BaseModelManager.get")
    /\ \E order \in Orders(RowsOf(rows, call.pk)) :
        FinishNew(set_attributes(rows, FromDb(records, call.pk), order,
                                 FALSE),
                  FALSE)
    /\ UNCHANGED records

\* obj.set_attribute(name, value, overwrite)
BaseModel_set_attribute ==
    /\ Running("set_attribute")
    /\ Finish(call.slot, set_attribute(rows, mem[call.slot], call.name,
                                       call.value, call.overwrite))

\* obj.set_attributes(overwrite)
BaseModel_set_attributes ==
    /\ Running("set_attributes")
    /\ \E order \in Orders(RowsOf(rows, mem[call.slot].pk)) :
        Finish(call.slot, set_attributes(rows, mem[call.slot], order,
                                         call.overwrite))

\* obj.create_attributes(attributes=, attribute_names=)
BaseModel_create_attributes ==
    /\ Running("create_attributes")
    /\ Finish(call.slot, create_attributes(rows, mem[call.slot],
                                           call.attributes,
                                           call.attribute_names))

\* obj.update_attributes(attributes=, create=)
BaseModel_update_attributes ==
    /\ Running("update_attributes")
    /\ Finish(call.slot, update_attributes(rows, mem[call.slot],
                                           call.attributes, call.create))

\* What a call of a ModelAttribute manager leaves: the rows, the content
\* object if one was given, and the ModelAttribute it returned.
FinishRelated(w) ==
    /\ rows' = w.rows
    /\ mem' = IF call.content_object = 0 THEN mem
              ELSE [mem EXCEPT ![call.content_object] = w.obj]
    /\ ret' = [raised |-> w.raised, created |-> w.created, inst |-> w.inst]
    /\ pc' = "returned"
    /\ UNCHANGED <<records, others, call, nops>>

\* obj.attributes.create(content_object, name=, value=)
Attributes_create ==
    /\ Running("attributes.create")
    /\ FinishRelated(Related_create(rows, mem[call.slot].pk,
                        ContentObject(call.content_object),
                        call.name, call.value))

\* obj.attributes.get_or_create(content_object, name=, value=)
Attributes_get_or_create ==
    /\ Running("attributes.get_or_create")
    /\ FinishRelated(Related_get_or_create(rows, mem[call.slot].pk,
                        ContentObject(call.content_object),
                        call.name, call.value))

\* What saving a ModelAttribute instance leaves.
FinishSave(s) ==
    /\ rows' = s.rows
    /\ ret' = [raised |-> s.raised, inst |-> s.inst]
    /\ pc' = "returned"
    /\ UNCHANGED <<records, others, mem, call, nops>>

\* obj.attributes.add(model_attribute)
Attributes_add ==
    /\ Running("attributes.add")
    /\ FinishSave(Related_add(rows, mem[call.slot].pk, call.inst))

\* obj.attributes.clear()
Attributes_clear ==
    /\ Running("attributes.clear")
    /\ rows' = Related_clear(rows, mem[call.slot].pk)
    /\ ret' = [raised |-> FALSE]
    /\ pc' = "returned"
    /\ UNCHANGED <<records, others, mem, call, nops>>

\* ModelAttribute.objects.create(content_object, name=, value=, object_id=)
ModelAttributeManager_create ==
    /\ Running("ModelAttribute.objects.create")
    /\ FinishRelated(Related_create(rows, call.object_id,
                        ContentObject(call.content_object),
                        call.name, call.value))

\* ModelAttribute.objects.get_or_create(content_object, name=, value=,
\* object_id=)
ModelAttributeManager_get_or_create ==
    /\ Running("ModelAttribute.objects.get_or_create")
    /\ FinishRelated(Related_get_or_create(rows, call.object_id,
                        ContentObject(call.content_object),
                        call.name, call.value))

\* model_attribute.save()
ModelAttribute_save ==
    /\ Running("ModelAttribute.save")
    /\ FinishSave(save(rows, call.inst))

Next ==
    \/ Invoke
    \/ Return
    \/ BaseModelManager_create
    \/ BaseModelManager_get_or_create
    \/ BaseModelManager_get
    \/ BaseModel_set_attribute
    \/ BaseModel_set_attributes
    \/ BaseModel_create_attributes
    \/ BaseModel_update_attributes
    \/ Attributes_create
    \/ Attributes_get_or_create
    \/ Attributes_add
    \/ Attributes_clear
    \/ ModelAttributeManager_create
    \/ ModelAttributeManager_get_or_create
    \/ ModelAttribute_save

Spec == Init /\ [][Next]_vars

----------------------------------------------------------------------------
(* The admin: BaseModelAdmin.save_model and save_formset *)

\* Model.save of a host object: an unsaved one is inserted under the next
\* primary key of its table, a saved one is written over its row.  A
\* BaseModel row holds last_modified_by; the other model has no such column.
Model_save(db, obj) ==
    IF obj.kind = "BaseModel"
    THEN [records |-> (IF obj.pk = 0 THEN db.records
                       ELSE [k \in DOMAIN db.records \ {obj.pk} |-> db.records[k]])
                      @@ ((IF obj.pk = 0 THEN NextPk(db.records) ELSE obj.pk)
                          :> [data |-> obj.data,
                              last_modified_by |-> obj.last_modified_by]),
          others |-> db.others,
          obj |-> [obj EXCEPT !.pk = IF @ = 0 THEN NextPk(db.records) ELSE @]]
    ELSE [records |-> db.records,
          others |-> (IF obj.pk = 0 THEN db.others
                      ELSE [k \in DOMAIN db.others \ {obj.pk} |-> db.others[k]])
                     @@ ((IF obj.pk = 0 THEN NextPk(db.others) ELSE obj.pk)
                         :> [data |-> obj.data]),
          obj |-> [obj EXCEPT !.pk = IF @ = 0 THEN NextPk(db.others) ELSE @]]

\* hasattr(obj, 'last_modified_by')
HasLastModifiedBy(obj) == obj.kind = "BaseModel"

\* hasattr(request, 'user'); a request is the user it carries, or NoUser.
HasUser(request) == request # NoUser

\* Faulty variant: the user recorded only while none is recorded yet.
with_last_modified_by_once(request, obj) ==
    IF HasLastModifiedBy(obj) /\ HasUser(request)
       /\ obj.last_modified_by = NoUser
    THEN [obj EXCEPT !.last_modified_by = request]
    ELSE obj

\* The first statement of save_model and of the loop of save_formset.
with_last_modified_by(request, obj) ==
    IF HasLastModifiedBy(obj) /\ HasUser(request)
    THEN [obj EXCEPT !.last_modified_by = request]
    ELSE obj

\* BaseModelAdmin.save_model(request, obj, form, change)
save_model(db, request, obj) ==
    Model_save(db, with_last_modified_by(request, obj))

\* BaseModelAdmin.save_formset over the instances formset.save(commit=False)
\* returned: objs are the objects in memory, instances the slots in order.
RECURSIVE save_formset(_, _, _, _)
save_formset_next(s, request, objs, slot, instances) ==
    save_formset([records |-> s.records, others |-> s.others], request,
                 [objs EXCEPT ![slot] = s.obj], instances)

save_formset(db, request, objs, instances) ==
    IF instances = <<>>
    THEN [records |-> db.records, others |-> db.others, objs |-> objs]
    ELSE save_formset_next(save_model(db, request, objs[Head(instances)]),
                           request, objs, Head(instances), Tail(instances))

Kinds == {"BaseModel", "Other"}
TableOf(kind) == IF kind = "BaseModel" THEN records ELSE others

\* The object an admin form builds with commit=False: a new one, or the
\* one with primary key pk, with the form's data on it.
FormObject(kind, pk, data) ==
    [(IF pk = 0 THEN Unsaved(kind)
      ELSE IF kind = "BaseModel" THEN FromDb(records, pk)
      ELSE OtherFromDb(others, pk))
        EXCEPT !.data = data]

Occupied == {s \in Slots : mem[s].kind # "none"}

\* Whether saving the object can insert one more row into its table.
CanSave(obj) == obj.pk # 0 \/ NextPk(TableOf(obj.kind)) \in Pks

\* The instances of a formset are different rows, and saving them leaves
\* no table with more rows than the model holds.
FormsetFits(instances) ==
    /\ \A i, j \in 1..Len(instances) :
          (i # j /\ mem[instances[i]].pk # 0)
              => \/ mem[instances[i]].kind # mem[instances[j]].kind
                 \/ mem[instances[i]].pk # mem[instances[j]].pk
    /\ Cardinality({i \in 1..Len(instances) :
                        mem[instances[i]].pk = 0
                        /\ mem[instances[i]].kind = "BaseModel"})
          + Cardinality(DOMAIN records) <= MaxObjs
    /\ Cardinality({i \in 1..Len(instances) :
                        mem[instances[i]].pk = 0
                        /\ mem[instances[i]].kind = "Other"})
          + Cardinality(DOMAIN others) <= MaxObjs

AdminCalls ==
    {[op |-> "form.save(commit=False)", slot |-> s, kind |-> k, pk |-> q,
      data |-> d] :
        s \in Slots, k \in Kinds, q \in {0} \cup Pks, d \in Data}
    \cup
    {[op |-> "save_model", slot |-> s, request |-> u] :
        s \in Occupied, u \in Users \cup {NoUser}}
    \cup
    {[op |-> "save_formset", instances |-> i, request |-> u] :
        i \in UNION {Orders(S) : S \in SUBSET Occupied \ {{}}},
        u \in Users \cup {NoUser}}

\* An admin view is asked for.
AdminInvoke ==
    /\ pc = "idle"
    /\ nops < MaxAdminOps
    /\ \E c \in AdminCalls :
        /\ c.op = "form.save(commit=False)"
              => c.pk = 0 \/ c.pk \in DOMAIN TableOf(c.kind)
        /\ c.op = "save_model" => CanSave(mem[c.slot])
        /\ c.op = "save_formset" => FormsetFits(c.instances)
        /\ call' = c
    /\ pc' = "called"
    /\ nops' = nops + 1
    /\ UNCHANGED <<records, others, rows, mem, ret>>

\* obj = form.save(commit=False)
Form_save_commit_false ==
    /\ Running("form.save(commit=False)")
    /\ mem' = [mem EXCEPT ![call.slot] =
                   FormObject(call.kind, call.pk, call.data)]
    /\ ret' = [raised |-> FALSE]
    /\ pc' = "returned"
    /\ UNCHANGED <<records, others, rows, call, nops>>

\* What an admin save leaves; previous is the last_modified_by the stored
\* rows had before.
FinishAdmin(s, objs) ==
    /\ records' = s.records
    /\ others' = s.others
    /\ mem' = objs
    /\ ret' = [raised |-> FALSE, previous |-> records]
    /\ pc' = "returned"
    /\ UNCHANGED <<rows, call, nops>>

FinishSaveModel(s) == FinishAdmin(s, [mem EXCEPT ![call.slot] = s.obj])
FinishSaveFormset(s) == FinishAdmin(s, s.objs)

\* model_admin.save_model(request, obj, form, change)
BaseModelAdmin_save_model ==
    /\ Running("save_model")
    /\ FinishSaveModel(save_model([records |-> records, others |-> others],
                                  call.request, mem[call.slot]))

\* model_admin.save_formset(request, form, formset, change)
BaseModelAdmin_save_formset ==
    /\ Running("save_formset")
    /\ FinishSaveFormset(save_formset([records |-> records, others |-> others],
                                      call.request, mem, call.instances))

NextAdmin ==
    \/ AdminInvoke
    \/ Return
    \/ Form_save_commit_false
    \/ BaseModelAdmin_save_model
    \/ BaseModelAdmin_save_formset

SpecAdmin == Init /\ [][NextAdmin]_vars

----------------------------------------------------------------------------
(* Properties *)

\* A valid name as the documentation has it: not empty, and every character
\* one of a-z, 0-9 and underscore.
SpecValid(n) == n # <<>> /\ \A i \in 1..Len(n) : n[i] \in PatternChars

\* The calls that save one ModelAttribute instance.
SavingCalls ==
    {"ModelAttribute.save", "attributes.add", "attributes.create",
     "ModelAttribute.objects.create"}
CreateCalls == {"attributes.create", "ModelAttribute.objects.create"}
GetOrCreateCalls ==
    {"attributes.get_or_create", "ModelAttribute.objects.get_or_create"}

\* The record a manager call creates the row for.
CallPk ==
    IF call.op \in {"attributes.create", "attributes.get_or_create",
                    "attributes.add"}
    THEN mem[call.slot].pk
    ELSE call.object_id

\* The instance a saving call hands to save().
SavedInstance ==
    IF call.op = "ModelAttribute.save" THEN call.inst
    ELSE IF call.op = "attributes.add"
    THEN [call.inst EXCEPT !.object_id = CallPk]
    ELSE NewAttribute(call.name, call.value, CallPk)

Saving == pc = "called" /\ call.op \in SavingCalls

\* C1: every name whose lower-cased form is empty or has a character
\* outside a-z, 0-9 and underscore makes save() (and so create, add and a
\* get_or_create that has to create) raise ValidationError and leaves the
\* stored ModelAttribute rows unchanged.
C1_InvalidNameRejected ==
    [][/\ Saving /\ ~SpecValid(Lower(SavedInstance.name))
            => ret'.raised /\ rows' = rows
       /\ (/\ pc = "called" /\ call.op \in GetOrCreateCalls
           /\ ~SpecValid(Lower(call.name))
           /\ [name |-> call.name, value |-> call.value,
               object_id |-> CallPk] \notin rows)
            => ret'.raised /\ rows' = rows]_vars

\* What C2 says of a save that succeeded: the stored row and the instance
\* in memory carry the lower-cased name, a content object gets the property
\* under that name and under no other, and a second clean() changes nothing.
C2_Lowercased ==
    /\ ~ret'.raised
    /\ ret'.inst.name = Lower(SavedInstance.name)
    /\ [name |-> Lower(SavedInstance.name), value |-> SavedInstance.value,
        object_id |-> SavedInstance.object_id] \in rows'
    /\ clean(ret'.inst) = ret'.inst
    /\ (call.op \in CreateCalls /\ call.content_object # 0)
          => /\ \A n \in Names \ {Lower(call.name)} :
                   mem'[call.content_object].props[n]
                       = mem[call.content_object].props[n]
             /\ ~hasattr(mem[call.content_object], Lower(call.name))
                   => getattr(mem'[call.content_object], Lower(call.name))
                          = call.value

\* C2 as claimed: for every name whose lower-cased form is valid, save()
\* succeeds and leaves the lower-cased name everywhere.
C2_ValidNameSaved ==
    [][(Saving /\ SpecValid(Lower(SavedInstance.name))) => C2_Lowercased]_vars

\* C2 as amended: for every name whose lower-cased form is valid, is at most
\* 255 characters long and is not the name of another stored row of the same
\* record, save() succeeds, the stored row's name and the in-memory
\* ModelAttribute's name equal the lower-cased input, a property propagated
\* to a host object is set under that lower-cased name, and a second clean()
\* changes nothing.
C2_ValidUniqueNameSaved ==
    [][(/\ Saving
        /\ SpecValid(Lower(SavedInstance.name))
        /\ Len(SavedInstance.name) <= NameMaxLength
        /\ ~\E r \in rows : /\ r.name = Lower(SavedInstance.name)
                            /\ r.object_id = SavedInstance.object_id
                            /\ r # SavedInstance.row)
          => C2_Lowercased]_vars

\* An upper-case name was created through the relation manager and reached
\* the content object in lower case.
C2_Witness ==
    /\ pc = "returned" /\ call.op = "attributes.create"
    /\ call.name = N_A /\ call.content_object # 0
    /\ ~ret.raised /\ ret.inst.name = N_a
    /\ getattr(mem[call.content_object], N_a) = call.value

\* C4: the object BaseModelManager.get returns has, for every stored
\* ModelAttribute of that record whose name is not empty and not already a
\* property of the object, a property of that name with the stored value.
C4_GetMaterializes ==
    (pc = "returned" /\ call.op = "BaseModelManager.get" /\ ~ret.raised)
        => /\ mem[call.slot].pk = call.pk
           /\ \A r \in RowsOf(rows, call.pk) :
                 (r.name # <<>> /\ ~hasattr(FromDb(records, call.pk), r.name))
                     => getattr(mem[call.slot], r.name) = r.value

\* get returned an object of a record that has a stored attribute, one with
\* the empty value among them.
C4_Witness ==
    /\ pc = "returned" /\ call.op = "BaseModelManager.get" /\ ~ret.raised
    /\ \E r \in RowsOf(rows, call.pk) :
          r.name = N_a /\ r.value = "" /\ getattr(mem[call.slot], N_a) = ""

\* C5: when BaseModelManager.get_or_create returns a record that already
\* existed, every stored ModelAttribute of that record (that the class does
\* not already provide under its name) is a property of the returned object.
C5_GetOrCreateMaterializes ==
    (/\ pc = "returned" /\ call.op = "BaseModelManager.get_or_create"
     /\ ~ret.raised /\ ~ret.created)
        => \A r \in RowsOf(rows, call.pk) :
              (r.name # <<>> /\ ~hasattr(FromDb(records, call.pk), r.name))
                  => getattr(mem[call.slot], r.name) = r.value

\* C6: BaseModelManager.get_or_create on a record that exists creates,
\* changes and deletes no ModelAttribute row, whatever attributes and
\* attribute_names it was given; on a record it creates, it creates the
\* attributes as BaseModelManager.create does, by create_attributes on the
\* new object.
C6_AttributesOnlyIfCreated ==
    [][Running("BaseModelManager.get_or_create")
          => IF call.pk \in ExistingPks
             THEN rows' = rows /\ ~ret'.created /\ ~ret'.raised
             ELSE /\ rows' = create_attributes(
                                 rows, FromDb(records', call.pk),
                                 call.attributes, call.attribute_names).rows
                  /\ ret'.created
                        => /\ mem'[call.slot].pk = call.pk
                           /\ Truthy(call.attributes)
                                 => \A i \in 1..Len(call.attributes.items) :
                                       [name |-> Lower(call.attributes.items[i].name),
                                        value |-> call.attributes.items[i].value,
                                        object_id |-> call.pk] \in rows']_vars

\* get_or_create found the record, and was given attributes to create.
C6_Witness ==
    /\ pc = "returned" /\ call.op = "BaseModelManager.get_or_create"
    /\ ~ret.created /\ ~ret.raised
    /\ Truthy(call.attributes)
    /\ RowsOf(rows, call.pk) = {}

\* C7: when attributes is given, attribute_names is ignored: every row
\* create_attributes (and so BaseModelManager.create and get_or_create)
\* creates is a name/value pair of attributes.
C7_AttributeNamesIgnored ==
    [][(/\ pc = "called"
        /\ call.op \in {"create_attributes", "BaseModelManager.create",
                        "BaseModelManager.get_or_create"}
        /\ call.attributes.given)
          => \A r \in rows' \ rows :
                \E i \in 1..Len(call.attributes.items) :
                    /\ r.name = Lower(call.attributes.items[i].name)
                    /\ r.value = call.attributes.items[i].value]_vars

\* What C8 says a created row named n leaves: the row is stored for the
\* manager's instance, and the content object has the property n with the
\* value, unless it had a property n already (and then it is untouched).
C8_Propagated(n) ==
    /\ [name |-> n, value |-> call.value, object_id |-> CallPk] \in rows'
    /\ call.content_object # 0
          => IF hasattr(mem[call.content_object], n)
             THEN mem'[call.content_object] = mem[call.content_object]
             ELSE getattr(mem'[call.content_object], n) = call.value

\* C8 as claimed: create(content_object, name=n, value=v) stores the row
\* (n, v) and gives content_object the property n; get_or_create does so
\* only when it created the row.
C8_CreatedPropagates ==
    [][/\ (pc = "called" /\ call.op \in CreateCalls /\ ~ret'.raised)
            => C8_Propagated(call.name)
       /\ (pc = "called" /\ call.op \in GetOrCreateCalls)
            => /\ ret'.created => C8_Propagated(call.name)
               /\ ~ret'.created => mem' = mem]_vars

\* C8 as amended: after create(content_object, name=n, value=v) succeeds, a
\* row (lower-cased n, v) of the manager's instance is stored and
\* content_object has the property lower-cased n equal to v (if it had no
\* such property); get_or_create does the same only when it created the row,
\* and leaves content_object and the rows untouched otherwise.
C8_CreatedPropagatesLowercased ==
    [][/\ (pc = "called" /\ call.op \in CreateCalls /\ ~ret'.raised)
            => C8_Propagated(Lower(call.name))
       /\ (pc = "called" /\ call.op \in GetOrCreateCalls)
            => /\ ret'.created => C8_Propagated(Lower(call.name))
               /\ ~ret'.created => mem' = mem /\ rows' = rows]_vars

\* The manager of one object created a row with an upper-case name and
\* another object in memory, given as content_object, got the property.
C8_Witness ==
    /\ pc = "returned" /\ call.op = "attributes.get_or_create"
    /\ ret.created /\ call.name = N_A
    /\ call.content_object # 0 /\ call.content_object # call.slot
    /\ [name |-> N_a, value |-> call.value,
        object_id |-> mem[call.slot].pk] \in rows
    /\ getattr(mem[call.content_object], N_a) = call.value

\* C9: update_attributes(attributes=D, create=c) gives every attribute of D
\* that exists the new stored value and overwrites the property; leaves an
\* attribute that is not found alone when c is False; and when c is True
\* every n of D ends stored with D[n] and as the property n = D[n].
C9_UpdateAttributes ==
    [][(Running("update_attributes") /\ Truthy(call.attributes))
          => \A i \in 1..Len(call.attributes.items) :
              LET n == call.attributes.items[i].name
                  v == call.attributes.items[i].value
                  pk == mem[call.slot].pk
                  found == \E r \in RowsOf(rows, pk) : r.name = n
              IN  /\ found
                        => /\ [name |-> n, value |-> v, object_id |-> pk]
                                  \in rows'
                           /\ getattr(mem'[call.slot], n) = v
                  /\ (~found /\ ~call.create)
                        => /\ ~\E r \in RowsOf(rows', pk) : r.name = n
                           /\ mem'[call.slot].props[n] = mem[call.slot].props[n]
                  /\ call.create
                        => /\ [name |-> n, value |-> v, object_id |-> pk]
                                  \in rows'
                           /\ getattr(mem'[call.slot], n) = v]_vars

\* C10: set_attribute and set_attributes with overwrite=False change no
\* property the object already has; with overwrite=True the property is set
\* to the given value whatever it was.
C10_OverwriteFlag ==
    [][(pc = "called" /\ call.op \in {"set_attribute", "set_attributes"})
          => /\ ~call.overwrite
                   => \A n \in Names :
                         hasattr(mem[call.slot], n)
                             => getattr(mem'[call.slot], n)
                                    = getattr(mem[call.slot], n)
             /\ (call.overwrite /\ call.op = "set_attribute")
                   => getattr(mem'[call.slot], call.name) = call.value
             /\ (call.overwrite /\ call.op = "set_attributes")
                   => \A r \in RowsOf(rows, mem[call.slot].pk) :
                         r.name # <<>>
                             => getattr(mem'[call.slot], r.name) = r.value]_vars

\* What C3 says of one saved object: o is the object before the call, o2
\* after it, request the request's user.
C3_Saved(request, o, o2) ==
    /\ o2.pk # 0
    /\ o2.data = o.data
    /\ IF HasLastModifiedBy(o)
       THEN /\ o2.last_modified_by
                 = IF HasUser(request) THEN request ELSE o.last_modified_by
            /\ o2.pk \in DOMAIN records'
            /\ records'[o2.pk] = [data |-> o.data,
                                  last_modified_by |-> o2.last_modified_by]
       ELSE /\ o2.last_modified_by = o.last_modified_by
            /\ o2.pk \in DOMAIN others'
            /\ others'[o2.pk] = [data |-> o.data]

\* C3: save_model (and each turn of save_formset) on an object that has
\* last_modified_by, with a request that has a user, sets last_modified_by
\* to that user and saves the object, so the stored last_modified_by is the
\* user of the latest such save; with no user on the request, or no such
\* field on the object, the object is saved with last_modified_by as it was.
C3_LastModifiedBy ==
    [][/\ Running("save_model")
            => C3_Saved(call.request, mem[call.slot], mem'[call.slot])
       /\ Running("save_formset")
            => \A i \in 1..Len(call.instances) :
                  C3_Saved(call.request, mem[call.instances[i]],
                           mem'[call.instances[i]])]_vars

\* bob saved, through the admin, a record alice had saved before him.
C3_Witness ==
    /\ pc = "returned" /\ call.op = "save_model" /\ call.request = "bob"
    /\ mem[call.slot].kind = "BaseModel"
    /\ mem[call.slot].pk \in DOMAIN ret.previous
    /\ ret.previous[mem[call.slot].pk].last_modified_by = "alice"
    /\ records[mem[call.slot].pk].last_modified_by = "bob"

=============================================================================
